---- MODULE Spec2Model ----
(***************************************************************************)
(* Event-log-to-graph transformation engine of process_mining_toolbox:     *)
(* the directly-follows graph (generate_dfg, generate_perf_dfg,            *)
(* generate_perf_dfg_graphviz), the queue network map                      *)
(* (generate_network_process_map_v2), the variant tables                   *)
(* (discover_variants, compute_variant_summary), format_duration and the   *)
(* first steps of the pipeline (load_event_log, analyze_sla,               *)
(* analyze_queues).                                                        *)
(*                                                                         *)
(* A DataFrame is [columns |-> set of column names, rows |-> sequence of   *)
(* row records].  A Python str is the sequence of its characters, so that  *)
(* joining, stripping and ordering strings are computed, not assumed.      *)
(* The state is the caller's log (event_df) and the record of the last     *)
(* call (its function, arguments, intermediate tables and return value).   *)
(***************************************************************************)
EXTENDS Integers, Sequences, FiniteSets, TLC

VARIABLES event_df, result

vars == <<event_df, result>>

(***************************************************************************)
(* Bounds of the model.                                                    *)
(***************************************************************************)
MaxEvents == 3          \* rows of a log (DFG and queue-map specifications)
MaxVariantEvents == 4   \* rows of a log (variant specification)
MaxThreshold == 2       \* min_edge_threshold ranges over 1..MaxThreshold
MaxPerfEvents == 4

MaxSeconds == 3700      \* format_duration inputs range over 0..MaxSeconds (in halves)

(***************************************************************************)
(* Python values.                                                          *)
(***************************************************************************)
\* pandas NaT: what pd.to_datetime(errors='coerce') and read_csv give for a
\* timestamp that is missing or does not parse.  Real timestamps are >= 1.
NaT == 0
\* float NaN of a duration computed from a NaT (real durations are >= 0).
NaN == 0 - 1

\* U+2192, the arrow of the variant separator
Arrow == ">"

\* ord(c) for the characters used by the model
Code(c) ==
    CASE c = " " -> 32
      [] c = "0" -> 48 [] c = "1" -> 49 [] c = "2" -> 50 [] c = "3" -> 51
      [] c = "4" -> 52 [] c = "5" -> 53 [] c = "6" -> 54 [] c = "7" -> 55
      [] c = "8" -> 56 [] c = "9" -> 57
      [] c = "A" -> 65 [] c = "B" -> 66 [] c = "C" -> 67
      [] c = "a" -> 97 [] c = "b" -> 98 [] c = "c" -> 99
      [] c = "e" -> 101 [] c = "h" -> 104 [] c = "i" -> 105
      [] c = "m" -> 109 [] c = "n" -> 110 [] c = "r" -> 114 [] c = "s" -> 115
      [] c = Arrow -> 8594

\* s < t for two Python strings (lexicographic by code point)
StrLess(s, t) ==
    \E k \in 1..(Len(s) + 1) :
        /\ k <= Len(t)
        /\ \A j \in 1..(k - 1) : s[j] = t[j]
        /\ k = Len(s) + 1 \/ Code(s[k]) < Code(t[k])

\* Stable sort, less[i][j] telling whether seq[i] is less than seq[j]: x goes
\* before y when x is less, or when neither is less and x came first.
StableSort(seq, less) ==
    LET n == Len(seq)
        rank == [i \in 1..n |->
                    Cardinality({j \in 1..n : \/ less[j][i]
                                              \/ /\ ~less[i][j]
                                                 /\ j < i}) + 1]
    IN  [k \in 1..n |-> seq[CHOOSE i \in 1..n : rank[i] = k]]

\* sorted() of numbers
SortNumbers(seq) ==
    StableSort(seq, [i \in DOMAIN seq |-> [j \in DOMAIN seq |-> seq[i] < seq[j]]])

\* sorted() of strings
SortStrings(seq) ==
    StableSort(seq, [i \in DOMAIN seq |-> [j \in DOMAIN seq |-> StrLess(seq[i], seq[j])]])

\* The distinct elements of seq, in order of first appearance
Unique(seq) ==
    LET first == {i \in DOMAIN seq : \A j \in 1..(i - 1) : seq[j] # seq[i]}
        at(k) == CHOOSE i \in first : Cardinality({j \in first : j < i}) = k - 1
    IN  [k \in 1..Cardinality(first) |-> seq[at(k)]]

RECURSIVE Concat(_)
Concat(seqs) ==
    IF seqs = << >> THEN << >> ELSE Head(seqs) \o Concat(Tail(seqs))

RECURSIVE SumSeq(_)
SumSeq(s) == IF s = << >> THEN 0 ELSE Head(s) + SumSeq(Tail(s))

Column(rows, c) == [i \in DOMAIN rows |-> rows[i][c]]

(***************************************************************************)
(* DataFrame.sort_values(by=['ticket_id','timestamp']): a stable           *)
(* lexicographic sort, NaT last within a ticket.                           *)
(***************************************************************************)
TimestampLess(a, b) == a # NaT /\ (b = NaT \/ a < b)

RowLess(r, s) ==
    \/ r.ticket_id < s.ticket_id
    \/ r.ticket_id = s.ticket_id /\ TimestampLess(r.timestamp, s.timestamp)

\* no sort: the rows as given
SortValuesNone(rows) == rows

SortValues(rows) ==
    StableSort(rows, [i \in DOMAIN rows |-> [j \in DOMAIN rows |-> RowLess(rows[i], rows[j])]])

\* df.groupby('ticket_id'): the groups in increasing ticket_id, each keeping
\* the order of its rows
GroupByTicket(rows) ==
    LET ids == SortNumbers(Unique(Column(rows, "ticket_id")))
    IN  [k \in DOMAIN ids |-> SelectSeq(rows, LAMBDA r : r.ticket_id = ids[k])]

Duration(t1, t2) == IF t1 = NaT \/ t2 = NaT THEN NaN ELSE t2 - t1

(***************************************************************************)
(* Aggregates of a pandas groupby: a statistic is the fraction num/den,    *)
(* NaN is 0/0.  Null (NaN) values are skipped.                             *)
(***************************************************************************)
NotNull(values) == SelectSeq(values, LAMBDA v : v # NaN)

AggCount(values) == Len(NotNull(values))

AggSum(values) == [num |-> SumSeq(NotNull(values)), den |-> 1]

AggMean(values) ==
    LET v == NotNull(values)
    IN  IF v = << >> THEN [num |-> 0, den |-> 0]
        ELSE [num |-> SumSeq(v), den |-> Len(v)]

AggMedian(values) ==
    LET v == SortNumbers(NotNull(values))
        n == Len(v)
    IN  IF n = 0 THEN [num |-> 0, den |-> 0]
        ELSE IF n % 2 = 1 THEN [num |-> v[(n + 1) \div 2], den |-> 1]
        ELSE [num |-> v[n \div 2] + v[n \div 2 + 1], den |-> 2]

(***************************************************************************)
(* Return values: a call returns a value or raises.                        *)
(***************************************************************************)
Returned(v) == [raised |-> "none", value |-> v]

Raised(e) == [raised |-> e, value |-> << >>]

AllColumns == {"ticket_id", "activity", "timestamp", "queue_id", "sla_met"}

(***************************************************************************)
(* format_duration (dfg_graphviz_visualizer.py and, word for word the      *)
(* same, dfg_perf_visualizer.py).  seconds is the number num/den.          *)
(***************************************************************************)
Digit(d) == <<"0", "1", "2", "3", "4", "5", "6", "7", "8", "9">>[d + 1]

\* str(n) of an int n >= 0
RECURSIVE Decimal(_)
Decimal(n) ==
    IF n < 10 THEN <<Digit(n)>> ELSE Decimal(n \div 10) \o <<Digit(n % 10)>>

\* int(x): truncation toward zero
IntOf(x) ==
    IF x.num >= 0 THEN x.num \div x.den ELSE 0 - ((0 - x.num) \div x.den)

HoursOf(total_sec) == total_sec \div 3600

\* total_sec // 60: the hours are not taken off
MinutesOfAll(total_sec) == total_sec \div 60

MinutesOf(total_sec) == (total_sec % 3600) \div 60

SecsOf(total_sec) == total_sec % 60

format_duration(seconds) ==
    LET total_sec == IntOf(seconds)
        hours == HoursOf(total_sec)
        minutes == MinutesOf(total_sec)
        secs == SecsOf(total_sec)
    IN  IF hours > 0
        THEN Decimal(hours) \o <<" ", "h", "r", " ">> \o Decimal(minutes)
                 \o <<" ", "m", "i", "n", " ">> \o Decimal(secs) \o <<" ", "s", "e", "c">>
        ELSE IF minutes > 0
        THEN Decimal(minutes) \o <<" ", "m", "i", "n", " ">> \o Decimal(secs)
                 \o <<" ", "s", "e", "c">>
        ELSE Decimal(secs) \o <<" ", "s", "e", "c">>

(***************************************************************************)
(* generate_dfg (dfg_generator.py)                                         *)
(***************************************************************************)
\* range(len(activities) - 2): the last pair of a case is dropped
DfgCaseStepsShort(group, columns) ==
    LET sla_flags == IF "sla_met" \in columns THEN Column(group, "sla_met")
                     ELSE [i \in DOMAIN group |-> 1]
    IN  [i \in 1..(Len(group) - 2) |->
            [queue_id     |-> group[1].queue_id,
             source       |-> group[i].activity,
             target       |-> group[i + 1].activity,
             duration_sec |-> Duration(group[i].timestamp, group[i + 1].timestamp),
             sla_met      |-> sla_flags[i + 1]]]

\* sla_flags[i]: the flag of the source event
DfgCaseStepsSourceFlag(group, columns) ==
    LET sla_flags == IF "sla_met" \in columns THEN Column(group, "sla_met")
                     ELSE [i \in DOMAIN group |-> 1]
    IN  [i \in 1..(Len(group) - 1) |->
            [queue_id     |-> group[1].queue_id,
             source       |-> group[i].activity,
             target       |-> group[i + 1].activity,
             duration_sec |-> Duration(group[i].timestamp, group[i + 1].timestamp),
             sla_met      |-> sla_flags[i]]]

\* group['queue_id'].iloc[i]: the queue of the Step's source event
DfgCaseStepsSourceQueue(group, columns) ==
    LET sla_flags == IF "sla_met" \in columns THEN Column(group, "sla_met")
                     ELSE [i \in DOMAIN group |-> 1]
    IN  [i \in 1..(Len(group) - 1) |->
            [queue_id     |-> group[i].queue_id,
             source       |-> group[i].activity,
             target       |-> group[i + 1].activity,
             duration_sec |-> Duration(group[i].timestamp, group[i + 1].timestamp),
             sla_met      |-> sla_flags[i + 1]]]

\* the Steps of one case: lines 17-33
DfgCaseSteps(group, columns) ==
    LET sla_flags == IF "sla_met" \in columns THEN Column(group, "sla_met")
                     ELSE [i \in DOMAIN group |-> 1]
    IN  [i \in 1..(Len(group) - 1) |->
            [queue_id     |-> group[1].queue_id,
             source       |-> group[i].activity,
             target       |-> group[i + 1].activity,
             duration_sec |-> Duration(group[i].timestamp, group[i + 1].timestamp),
             sla_met      |-> sla_flags[i + 1]]]

\* the edges list: lines 12-33
DfgEdges(df) ==
    LET groups == GroupByTicket(SortValues(df.rows))
    IN  Concat([k \in DOMAIN groups |-> DfgCaseSteps(groups[k], df.columns)])

DfgKey(e) == <<e.queue_id, e.source, e.target>>

\* order of the group keys of groupby(['queue_id','source','target'])
KeyLess(k1, k2) ==
    \E i \in DOMAIN k1 :
        /\ \A j \in 1..(i - 1) : k1[j] = k2[j]
        /\ StrLess(k1[i], k2[i])

SortKeys(keys) ==
    StableSort(keys, [i \in DOMAIN keys |-> [j \in DOMAIN keys |-> KeyLess(keys[i], keys[j])]])

\* lines 35-42: one row per key, in key order
DfgSummary(edges) ==
    LET keys == SortKeys(Unique([i \in DOMAIN edges |-> DfgKey(edges[i])]))
        rowOf(k) ==
            LET steps == SelectSeq(edges, LAMBDA e : DfgKey(e) = k)
            IN  [queue_id           |-> k[1],
                 source             |-> k[2],
                 target             |-> k[3],
                 count              |-> Len(steps),
                 avg_duration_sec   |-> AggMean(Column(steps, "duration_sec")),
                 sla_compliance_pct |-> AggMean(Column(steps, "sla_met"))]
    IN  [i \in DOMAIN keys |-> rowOf(keys[i])]

\* edges is DfgEdges(df)
generate_dfg(df, edges) ==
    IF ~({"ticket_id", "timestamp", "activity", "queue_id"} \subseteq df.columns)
    THEN Raised("KeyError")
    ELSE IF edges = << >>
    THEN Raised("KeyError")     \* pd.DataFrame([]) has no column to group by
    ELSE Returned(DfgSummary(edges))

(***************************************************************************)
(* generate_perf_dfg (dfg_perf_visualizer.py) and                          *)
(* generate_perf_dfg_graphviz (dfg_graphviz_visualizer.py)                 *)
(***************************************************************************)
PerfCaseSteps(group) ==
    [i \in 1..(Len(group) - 1) |->
        [source       |-> group[i].activity,
         target       |-> group[i + 1].activity,
         duration_sec |-> Duration(group[i].timestamp, group[i + 1].timestamp)]]

PerfEdges(df) ==
    LET groups == GroupByTicket(SortValues(df.rows))
    IN  Concat([k \in DOMAIN groups |-> PerfCaseSteps(groups[k])])

PerfKey(e) == <<e.source, e.target>>

\* the mean whatever the mode
DurationStatMeanOnly(values, mode) == AggMean(values)

DurationStat(values, mode) ==
    IF mode = "median" THEN AggMedian(values)
    ELSE IF mode = "total" THEN AggSum(values)
    ELSE AggMean(values)

PerfSummary(edges, mode) ==
    LET keys == SortKeys(Unique([i \in DOMAIN edges |-> PerfKey(edges[i])]))
        rowOf(k) ==
            LET steps == SelectSeq(edges, LAMBDA e : PerfKey(e) = k)
            IN  [source   |-> k[1],
                 target   |-> k[2],
                 duration |-> DurationStat(Column(steps, "duration_sec"), mode),
                 count    |-> AggCount(Column(steps, "duration_sec"))]
    IN  [i \in DOMAIN keys |-> rowOf(keys[i])]

\* the labelled edges handed to networkx / graphviz
PerfGraph(summary, between) ==
    [i \in DOMAIN summary |->
        [source |-> summary[i].source,
         target |-> summary[i].target,
         label  |-> format_duration(summary[i].duration) \o between
                        \o Decimal(summary[i].count)
                        \o <<" ", "t", "i", "c", "k", "e", "t", "s", ")">>]]

\* summary is PerfSummary(PerfEdges(df), mode)
PerfReturn(df, summary, between) ==
    IF ~({"ticket_id", "timestamp", "activity"} \subseteq df.columns)
    THEN Raised("KeyError")
    ELSE IF \E i \in DOMAIN summary : summary[i].duration.den = 0
    THEN Raised("ValueError")   \* int(nan) in format_duration
    ELSE Returned(PerfGraph(summary, between))

generate_perf_dfg(df, summary) == PerfReturn(df, summary, <<" ", "(">>)

generate_perf_dfg_graphviz(df, summary) == PerfReturn(df, summary, <<"\n", "(">>)

(***************************************************************************)
(* generate_network_process_map_v2 (network_process_map_v2.py)             *)
(***************************************************************************)
\* pd.to_datetime(v, errors='coerce'): a cell that holds no date (modelled
\* by a value <= 0) becomes NaT
ToDatetime(v) == IF v > 0 THEN v ELSE NaT

\* str.strip()
Strip(s) ==
    LET keep == {i \in DOMAIN s : s[i] # " "}
    IN  IF keep = {} THEN << >>
        ELSE SubSeq(s, CHOOSE i \in keep : \A j \in keep : i <= j,
                       CHOOSE i \in keep : \A j \in keep : j <= i)

\* lines 78-80
NormalizeData(df) ==
    [df EXCEPT !.rows = [i \in DOMAIN df.rows |->
        [df.rows[i] EXCEPT !.timestamp = ToDatetime(@), !.queue_id = Strip(@)]]]

\* line 81
NormalizeSelection(selected_queues) ==
    [i \in DOMAIN selected_queues |-> Strip(selected_queues[i])]

InList(x, list) == \E i \in DOMAIN list : list[i] = x

\* a variant of the loop of lines 47-52 that keeps only the first visit of
\* each queue (compares q with every kept entry, not with the last one)
DedupQueuesSeen(queues, filtered) ==
    LET firsts == {k \in DOMAIN queues :
                      /\ queues[k] # << >>
                      /\ ~InList(queues[k], filtered)
                      /\ \A j \in 1..(k - 1) : queues[j] # queues[k]}
    IN  filtered \o
        [n \in 1..Cardinality(firsts) |->
            queues[CHOOSE k \in firsts : Cardinality({m \in firsts : m < k}) = n - 1]]

\* the loop of lines 47-52 over the queues of one case
RECURSIVE DedupQueues(_, _)
DedupQueues(queues, filtered) ==
    IF queues = << >> THEN filtered
    ELSE LET q == Head(queues)
         IN  IF q = << >> THEN DedupQueues(Tail(queues), filtered)
             ELSE IF filtered = << >> \/ filtered[Len(filtered)] # q
             THEN DedupQueues(Tail(queues), Append(filtered, q))
             ELSE DedupQueues(Tail(queues), filtered)

\* per_ticket_sequences of _compute_queue_transitions
PerTicketSequences(df) ==
    LET rows == SortValues(df.rows)
        ids == {rows[i].ticket_id : i \in DOMAIN rows}
    IN  [t \in ids |->
            DedupQueues(Column(SelectSeq(rows, LAMBDA r : r.ticket_id = t), "queue_id"),
                        << >>)]

\* zip(filtered, filtered[1:])
AdjacentPairs(seq) == [i \in 1..(Len(seq) - 1) |-> <<seq[i], seq[i + 1]>>]

\* number of i with seq[i] = x
Occurrences(seq, x) == Cardinality({i \in DOMAIN seq : seq[i] = x})

RECURSIVE SumOver(_, _)
SumOver(f, S) ==
    IF S = {} THEN 0
    ELSE LET x == CHOOSE y \in S : TRUE IN f[x] + SumOver(f, S \ {x})

\* the Counter transitions of _compute_queue_transitions: lines 54-55
GlobalTransitions(sequences) ==
    LET pairs == UNION {{AdjacentPairs(sequences[t])[i] :
                            i \in DOMAIN AdjacentPairs(sequences[t])} :
                        t \in DOMAIN sequences}
    IN  [p \in pairs |->
            SumOver([t \in DOMAIN sequences |->
                        Occurrences(AdjacentPairs(sequences[t]), p)],
                    DOMAIN sequences)]

\* the comparison turned round
ReachesThresholdInverted(cnt, min_edge_threshold) == cnt <= min_edge_threshold

\* the comparison of a count with min_edge_threshold: lines 92 and 101
ReachesThreshold(cnt, min_edge_threshold) == cnt >= min_edge_threshold

\* lines 89-93
FilterTransitions(global_transitions, selected_queues, min_edge_threshold) ==
    LET kept == {p \in DOMAIN global_transitions :
                    /\ InList(p[1], selected_queues)
                    /\ InList(p[2], selected_queues)
                    /\ p[1] # p[2]
                    /\ ReachesThreshold(global_transitions[p], min_edge_threshold)}
    IN  [p \in kept |-> global_transitions[p]]

\* counts every ticket by its first queue, also one that moved on
SingleQueueCountsByFirst(sequences, selected_queues) ==
    LET stuck == {t \in DOMAIN sequences :
                    Len(sequences[t]) >= 1 /\ InList(sequences[t][1], selected_queues)}
    IN  [q \in {sequences[t][1] : t \in stuck} |->
            Cardinality({t \in stuck : sequences[t][1] = q})]

\* lines 96-99
SingleQueueCounts(sequences, selected_queues) ==
    LET stuck == {t \in DOMAIN sequences :
                    Len(sequences[t]) = 1 /\ InList(sequences[t][1], selected_queues)}
    IN  [q \in {sequences[t][1] : t \in stuck} |->
            Cardinality({t \in stuck : sequences[t][1] = q})]

\* the threshold is not applied to the self-loops
ThresholdCountsNone(counts, min_edge_threshold) == counts

\* line 101
ThresholdCounts(counts, min_edge_threshold) ==
    [q \in {k \in DOMAIN counts : ReachesThreshold(counts[k], min_edge_threshold)} |->
        counts[q]]

\* kind='transition' on both add_edge calls
BuildGraphOneKind(transitions, single_queue_counts) ==
    LET loops == {<<q, q>> : q \in DOMAIN single_queue_counts}
    IN  [e \in (DOMAIN transitions) \cup loops |->
            IF e \in loops
            THEN [weight |-> single_queue_counts[e[1]], kind |-> "transition"]
            ELSE [weight |-> transitions[e], kind |-> "transition"]]

\* lines 114-122: G.add_edge for the transitions, then for the self-loops
\* (add_edge on an existing pair replaces its attributes)
BuildGraph(transitions, single_queue_counts) ==
    LET loops == {<<q, q>> : q \in DOMAIN single_queue_counts}
    IN  [e \in (DOMAIN transitions) \cup loops |->
            IF e \in loops
            THEN [weight |-> single_queue_counts[e[1]], kind |-> "self_loop"]
            ELSE [weight |-> transitions[e], kind |-> "transition"]]

GraphNodes(G) == {e[1] : e \in DOMAIN G} \cup {e[2] : e \in DOMAIN G}

\* per_ticket_filtered_sequences_sample keeps the first 10 tickets
SampleSize == 10

\* lines 104-111
Diagnostics(df, selected_queues, sequences, transitions, single_queue_counts) ==
    [distinct_queues_in_data |->
        SortStrings(Unique(Column(df.rows, "queue_id"))),
     selected_queues |-> selected_queues,
     total_tickets |-> Cardinality(DOMAIN sequences),
     per_ticket_filtered_sequences_sample |->
        [t \in {u \in DOMAIN sequences :
                    Cardinality({v \in DOMAIN sequences : v < u}) < SampleSize} |->
            sequences[t]],
     filtered_transition_counts |-> transitions,
     single_queue_ticket_counts |-> single_queue_counts]

\* Lines 83-139 on the normalized data: everything the call computes, what it
\* leaves on disk (the output directory of line 83, the image of savefig)
\* and what it returns.  With no edge to draw and a non-empty selection the
\* placeholder branch builds nx.DiGraph(nodes) from a list of strings, which
\* networkx rejects or reads as an edge list whose nodes then have no
\* position: the call raises NetworkXError before savefig.
NetworkComputation(df, selected_queues, debug, min_edge_threshold) ==
    LET sequences == PerTicketSequences(df)
        global_transitions == GlobalTransitions(sequences)
        transitions ==
            FilterTransitions(global_transitions, selected_queues, min_edge_threshold)
        counted == SingleQueueCounts(sequences, selected_queues)
        single_queue_counts == ThresholdCounts(counted, min_edge_threshold)
        diagnostics == Diagnostics(df, selected_queues, sequences, transitions,
                                   single_queue_counts)
        G == BuildGraph(transitions, single_queue_counts)
    IN  [per_ticket_sequences |-> sequences,
         global_transitions   |-> global_transitions,
         counted              |-> counted,
         transitions          |-> transitions,
         single_queue_counts  |-> single_queue_counts,
         G                    |-> G,
         made_dirs            |-> TRUE,
         image_written        |-> ~(DOMAIN G = {} /\ selected_queues # << >>),
         out |-> IF DOMAIN G = {} /\ selected_queues # << >>
                 THEN Raised("NetworkXError")
                 ELSE Returned(IF debug THEN <<diagnostics>> ELSE << >>)]

\* the rows filtered to the selected queues before the sequences are built,
\* as generate_network_process_map of network_process_map.py does
NetworkProcessMapV2FilterFirst(raw_df, raw_selected, debug, min_edge_threshold) ==
    LET df == NormalizeData(raw_df)
        selected_queues == NormalizeSelection(raw_selected)
    IN  NetworkComputation(
            [df EXCEPT !.rows = SelectSeq(@, LAMBDA r : InList(r.queue_id,
                                                               selected_queues))],
            selected_queues, debug, min_edge_threshold)

\* lines 77-139
NetworkProcessMapV2(raw_df, raw_selected, debug, min_edge_threshold) ==
    NetworkComputation(NormalizeData(raw_df), NormalizeSelection(raw_selected),
                       debug, min_edge_threshold)

\* only ticket_id is asked for
RequiredColumnsTicketOnly == {"ticket_id"}

\* line 73
RequiredColumns == {"ticket_id", "timestamp", "queue_id"}

(***************************************************************************)
(* discover_variants (variant_analysis.py) and compute_variant_summary     *)
(* (variant_summary.py)                                                    *)
(***************************************************************************)
\* the separator " -> " written with U+2192
Separator == <<" ", Arrow, " ">>

\* sep.join(strings)
RECURSIVE Join(_, _)
Join(strings, sep) ==
    IF strings = << >> THEN << >>
    ELSE IF Len(strings) = 1 THEN strings[1]
    ELSE strings[1] \o sep \o Join(Tail(strings), sep)

\* the signature of a group of rows: line 15
Signature(group) == Join(Column(group, "activity"), Separator)

QueueTicketLess(k1, k2) ==
    \/ StrLess(k1[1], k2[1])
    \/ k1[1] = k2[1] /\ k1[2] < k2[2]

SortQueueTickets(keys) ==
    StableSort(keys, [i \in DOMAIN keys |->
                         [j \in DOMAIN keys |-> QueueTicketLess(keys[i], keys[j])]])

\* one row per ticket_id: the case's events of all queues in one signature,
\* under the queue of its first event
VariantRowsByTicket(df) ==
    LET groups == GroupByTicket(SortValues(df.rows))
    IN  [k \in DOMAIN groups |->
            [queue_id  |-> groups[k][1].queue_id,
             ticket_id |-> groups[k][1].ticket_id,
             sequence  |-> Signature(groups[k])]]

\* lines 10-18: one row per (queue_id, ticket_id), in key order
VariantRows(df) ==
    LET rows == SortValues(df.rows)
        keys == SortQueueTickets(Unique([i \in DOMAIN rows |->
                                      <<rows[i].queue_id, rows[i].ticket_id>>]))
    IN  [i \in DOMAIN keys |->
            [queue_id  |-> keys[i][1],
             ticket_id |-> keys[i][2],
             sequence  |-> Signature(SelectSeq(rows, LAMBDA r :
                               r.queue_id = keys[i][1] /\ r.ticket_id = keys[i][2]))]]

\* variant_id counted over the whole table, not per queue
VariantSummaryGlobalIds(variants) ==
    LET keys == SortKeys(Unique([i \in DOMAIN variants |->
                                    <<variants[i].queue_id, variants[i].sequence>>]))
    IN  [i \in DOMAIN keys |->
            [queue_id     |-> keys[i][1],
             sequence     |-> keys[i][2],
             ticket_count |-> Len(SelectSeq(variants, LAMBDA v :
                                  v.queue_id = keys[i][1] /\ v.sequence = keys[i][2])),
             variant_id   |-> i]]

\* lines 21-26: one row per (queue_id, sequence) in key order; variant_id is
\* the row's position among the rows of its queue (cumcount() + 1)
VariantSummary(variants) ==
    LET keys == SortKeys(Unique([i \in DOMAIN variants |->
                                      <<variants[i].queue_id, variants[i].sequence>>]))
    IN  [i \in DOMAIN keys |->
            [queue_id     |-> keys[i][1],
             sequence     |-> keys[i][2],
             ticket_count |-> Len(SelectSeq(variants, LAMBDA v :
                                  v.queue_id = keys[i][1] /\ v.sequence = keys[i][2])),
             variant_id   |-> Cardinality({j \in 1..(i - 1) : keys[j][1] = keys[i][1]})
                                  + 1]]

\* variants is VariantRows(df)
discover_variants(df, variants) ==
    IF ~({"ticket_id", "timestamp", "activity", "queue_id"} \subseteq df.columns)
    THEN Raised("KeyError")
    ELSE IF variants = << >>
    THEN Raised("KeyError")     \* pd.DataFrame([]) has no column to group by
    ELSE Returned(VariantSummary(variants))

\* lines 7-8: an empty or absent selection keeps every row
FilterQueues(rows, selected_queues) ==
    IF selected_queues = << >> THEN rows
    ELSE SelectSeq(rows, LAMBDA r : InList(r.queue_id, selected_queues))

\* line 14: one signature per ticket_id, over all of the ticket's rows
TicketVariants(rows) ==
    LET groups == GroupByTicket(rows)
    IN  [k \in DOMAIN groups |->
            [ticket_id |-> groups[k][1].ticket_id, activity |-> Signature(groups[k])]]

\* line 15: variants.merge(df[['ticket_id','queue_id']], on='ticket_id'): one
\* row per matching pair, that is one row per row of df
MergeOnTicket(variants, rows) ==
    Concat([k \in DOMAIN variants |->
        LET mine == SelectSeq(rows, LAMBDA r : r.ticket_id = variants[k].ticket_id)
        IN  [i \in DOMAIN mine |->
                [ticket_id |-> variants[k].ticket_id,
                 activity  |-> variants[k].activity,
                 queue_id  |-> mine[i].queue_id]]])

\* lines 17-19: groupby(['queue_id','activity']).size(), then the rows by
\* decreasing count
VariantCounts(merged) ==
    LET keys == SortKeys(Unique([i \in DOMAIN merged |->
                                      <<merged[i].queue_id, merged[i].activity>>]))
        sized == [i \in DOMAIN keys |->
                    [queue_id |-> keys[i][1],
                     variant  |-> keys[i][2],
                     count    |-> Len(SelectSeq(merged, LAMBDA m :
                                     m.queue_id = keys[i][1] /\ m.activity = keys[i][2]))]]
    IN  StableSort(sized, [i \in DOMAIN sized |->
                              [j \in DOMAIN sized |-> sized[i].count > sized[j].count]])

compute_variant_summary(df, selected_queues) ==
    IF ~({"ticket_id", "timestamp", "activity", "queue_id"} \subseteq df.columns)
    THEN Raised("KeyError")
    ELSE LET rows == SortValues(FilterQueues(df.rows, selected_queues))
         IN  Returned(VariantCounts(MergeOnTicket(TicketVariants(rows), rows)))

(***************************************************************************)
(* load_event_log (log_parser.py), analyze_sla (sla_analysis.py) and       *)
(* analyze_queues (queue_analysis.py), the first steps of run_pipeline.py. *)
(* The caller's log is the content of the CSV file.                        *)
(***************************************************************************)
\* groupby('ticket_id').cumcount() + 1
EventOrder(rows, i) ==
    Cardinality({j \in 1..i : rows[j].ticket_id = rows[i].ticket_id})

\* groupby('ticket_id')['timestamp'].shift(-1): the timestamp of the next row
\* of the same ticket, NaT for the last row of a ticket
NextTimestamp(rows, i) ==
    LET later == {j \in (i + 1)..Len(rows) : rows[j].ticket_id = rows[i].ticket_id}
    IN  IF later = {} THEN NaT
        ELSE rows[CHOOSE j \in later : \A k \in later : j <= k].timestamp

\* groupby('ticket_id')['timestamp'].diff() reads the previous row of the
\* same ticket, NaT for the first row of a ticket
PreviousTimestamp(rows, i) ==
    LET sooner == {j \in 1..(i - 1) : rows[j].ticket_id = rows[i].ticket_id}
    IN  IF sooner = {} THEN NaT
        ELSE rows[CHOOSE j \in sooner : \A k \in sooner : k <= j].timestamp

\* Series.fillna(fill)
FillNa(v, fill) == IF v = NaN THEN fill ELSE v

load_event_log(df) ==
    IF "timestamp" \notin df.columns THEN Raised("ValueError")   \* parse_dates
    ELSE IF "ticket_id" \notin df.columns THEN Raised("KeyError")
    ELSE LET rows == SortValues(df.rows)
         IN  Returned(
                [columns |-> df.columns \cup {"event_order", "next_timestamp", "duration_sec"},
                 rows |-> [i \in DOMAIN rows |->
                    [ticket_id      |-> rows[i].ticket_id,
                     activity       |-> rows[i].activity,
                     timestamp      |-> rows[i].timestamp,
                     queue_id       |-> rows[i].queue_id,
                     sla_met        |-> rows[i].sla_met,
                     event_order    |-> EventOrder(rows, i),
                     next_timestamp |-> NextTimestamp(rows, i),
                     duration_sec   |->
                        FillNa(Duration(rows[i].timestamp, NextTimestamp(rows, i)), 0)]]])

\* lines 12-19 of analyze_sla: duration_sec is overwritten with the time since
\* the previous event of the ticket, and a table that has sla_met is returned
\* as it is (lines 21-49 run only for a table without that column)
analyze_sla(df) ==
    [df EXCEPT !.rows = [i \in DOMAIN df.rows |->
        [df.rows[i] EXCEPT !.duration_sec =
            FillNa(Duration(PreviousTimestamp(df.rows, i), df.rows[i].timestamp), 0)]]]

\* one row per queue_id in sorted order; sla_compliance and avg_duration are
\* fractions
analyze_queues(df) ==
    IF ~({"queue_id", "ticket_id", "sla_met", "duration_sec"} \subseteq df.columns)
    THEN Raised("KeyError")
    ELSE LET queues == SortStrings(Unique(Column(df.rows, "queue_id")))
         IN  Returned([k \in DOMAIN queues |->
                LET group == SelectSeq(df.rows, LAMBDA r : r.queue_id = queues[k])
                    total_tickets ==
                        Cardinality({group[i].ticket_id : i \in DOMAIN group})
                    sla_met == SumSeq(NotNull(Column(group, "sla_met")))
                IN  [queue_id       |-> queues[k],
                     total_tickets  |-> total_tickets,
                     sla_met        |-> sla_met,
                     avg_duration   |-> AggMean(Column(group, "duration_sec")),
                     sla_compliance |-> [num |-> sla_met * 100, den |-> total_tickets]]])

(***************************************************************************)
(* The caller's DataFrame after a call.  Every aggregation works on a      *)
(* copy: generate_dfg and discover_variants rebind their local name df to  *)
(* the sorted copy that sort_values returns, and                           *)
(* generate_network_process_map_v2 normalizes event_df.copy().             *)
(***************************************************************************)
AfterGenerateDfg(df) == df

AfterPerfDfg(df) == df

AfterDiscoverVariants(df) == df

AfterVariantSummary(df) == df

\* df = event_df in place of event_df.copy(): lines 79-80 then write into the
\* caller's DataFrame
AfterNetworkProcessMapV2NoCopy(df) == NormalizeData(df)

AfterNetworkProcessMapV2(df) == df

(***************************************************************************)
(* Operations                                                              *)
(***************************************************************************)
NoCall == [fn |-> "none"]

GenerateDfg ==
    /\ result' = LET edges == DfgEdges(event_df)
                 IN  [fn    |-> "generate_dfg",
                      edges |-> edges,
                      out   |-> generate_dfg(event_df, edges)]
    /\ event_df' = AfterGenerateDfg(event_df)

GeneratePerfDfg(mode) ==
    /\ result' = LET edges == PerfEdges(event_df)
                     summary == PerfSummary(edges, mode)
                 IN  [fn      |-> "generate_perf_dfg",
                      mode    |-> mode,
                      edges   |-> edges,
                      summary |-> summary,
                      out     |-> generate_perf_dfg(event_df, summary)]
    /\ event_df' = AfterPerfDfg(event_df)

GeneratePerfDfgGraphviz(mode) ==
    /\ result' = LET edges == PerfEdges(event_df)
                     summary == PerfSummary(edges, mode)
                 IN  [fn      |-> "generate_perf_dfg_graphviz",
                      mode    |-> mode,
                      edges   |-> edges,
                      summary |-> summary,
                      out     |-> generate_perf_dfg_graphviz(event_df, summary)]
    /\ event_df' = AfterPerfDfg(event_df)

GenerateNetworkProcessMapV2(selected_queues, debug, min_edge_threshold) ==
    /\ result' =
        IF ~(RequiredColumns \subseteq event_df.columns)
        THEN [fn |-> "generate_network_process_map_v2",
              selected_queues |-> selected_queues,
              debug |-> debug,
              min_edge_threshold |-> min_edge_threshold,
              computed |-> << >>,
              made_dirs |-> FALSE,
              image_written |-> FALSE,
              out |-> Raised("ValueError")]
        ELSE LET run == NetworkProcessMapV2(event_df, selected_queues, debug,
                                            min_edge_threshold)
             IN  [fn |-> "generate_network_process_map_v2",
                  selected_queues |-> selected_queues,
                  debug |-> debug,
                  min_edge_threshold |-> min_edge_threshold,
                  computed |-> <<run>>,
                  made_dirs |-> run.made_dirs,
                  image_written |-> run.image_written,
                  out |-> run.out]
    /\ event_df' = AfterNetworkProcessMapV2(event_df)

\* load_event_log(filepath): the file is read, not written
LoadEventLog ==
    /\ result' = [fn  |-> "load_event_log",
                  out |-> load_event_log(event_df)]
    /\ UNCHANGED event_df

\* run_pipeline.py lines 20-26 on a log that has the sla_met column:
\* analyze_queues(analyze_sla(load_event_log(file)))
AnalyzeQueues ==
    /\ "sla_met" \in event_df.columns
    /\ result' =
        LET loaded == load_event_log(event_df)
        IN  IF loaded.raised # "none"
            THEN [fn |-> "analyze_queues", df |-> << >>, out |-> loaded]
            ELSE LET df == analyze_sla(loaded.value)
                 IN  [fn  |-> "analyze_queues",
                      df  |-> <<df>>,
                      out |-> analyze_queues(df)]
    /\ UNCHANGED event_df

DiscoverVariants ==
    /\ result' = LET variants == VariantRows(event_df)
                 IN  [fn       |-> "discover_variants",
                      variants |-> variants,
                      out      |-> discover_variants(event_df, variants)]
    /\ event_df' = AfterDiscoverVariants(event_df)

ComputeVariantSummary(selected_queues) ==
    /\ result' = [fn |-> "compute_variant_summary",
                  selected_queues |-> selected_queues,
                  out |-> compute_variant_summary(event_df, selected_queues)]
    /\ event_df' = AfterVariantSummary(event_df)

FormatDuration(seconds) ==
    /\ result' = [fn |-> "format_duration",
                  seconds |-> seconds,
                  out |-> Returned(format_duration(seconds))]
    /\ UNCHANGED event_df

(***************************************************************************)
(* Inputs                                                                  *)
(***************************************************************************)
SeqsUpTo(S, n) == UNION {[1..k -> S] : k \in 0..n}

Frame(rows) == [columns |-> AllColumns, rows |-> rows]

Modes == {"avg", "median", "total", "max"}

\* logs of the directly-follows specifications: a timestamp cell may be empty
DfgRowValues ==
    [ticket_id : {1, 2}, activity : {<<"a">>, <<"b">>}, timestamp : {1, 2, NaT},
     queue_id : {<<"A">>}, sla_met : {1}]

\* logs of the queue-map specification
NetRowValues ==
    [ticket_id : {1, 2, 3}, activity : {<<"a">>}, timestamp : {1, 2},
     queue_id : {<<"A">>, <<"B">>, <<"C">>}, sla_met : {1}]

Selections == {<<<<"A">>, <<"B">>>>, <<<<"C">>, <<"A">>, <<"B">>>>}

\* logs of the variant specification: one activity name contains the separator
VariantRowValues ==
    [ticket_id : {1, 2}, activity : {<<"a">>, <<"a", " ", Arrow, " ", "a">>},
     timestamp : {1, 2}, queue_id : {<<"A">>, <<"B">>}, sla_met : {1}]

VariantSelections == {<< >>, <<<<"A">>>>}

\* logs of the repeated-call specification: one queue_id needs stripping
RepeatRowValues ==
    [ticket_id : {1, 2}, activity : {<<"a">>}, timestamp : {1, 2},
     queue_id : {<<"A">>, <<" ", "B">>}, sla_met : {1}]

RepeatSelections == {<<<<"A">>, <<"B">>>>}

\* logs of the compliance specification: an sla_met cell may be empty, and the
\* sla_met column may be absent
SlaRowValues ==
    [ticket_id : {1, 2}, activity : {<<"a">>}, timestamp : {1, 2},
     queue_id : {<<"A">>}, sla_met : {0, 1, NaN}]

SlaColumns == {AllColumns, AllColumns \ {"sla_met"}}

\* the column sets of the schema specification: any of the required columns
\* may be absent
SchemaColumns ==
    {AllColumns \ missing : missing \in SUBSET {"ticket_id", "timestamp", "queue_id"}}

\* logs of the duration-statistic specification: one case, long enough for a
\* Transition of three Steps
PerfRowValues ==
    [ticket_id : {1}, activity : {<<"a">>, <<"b">>}, timestamp : {1, 2, NaT},
     queue_id : {<<"A">>}, sla_met : {1}]

\* logs of the selection specification: three cases, rows in time order
SelectRowValues ==
    [ticket_id : {1, 2, 3}, activity : {<<"a">>}, timestamp : {1},
     queue_id : {<<"A">>, <<"B">>, <<"C">>}, sla_met : {1}]

\* logs of the variant-id specification: three cases, two queues, rows in
\* time order
VariantIdRowValues ==
    [ticket_id : {1, 2, 3}, activity : {<<"a">>, <<"b">>}, timestamp : {1},
     queue_id : {<<"A">>, <<"B">>}, sla_met : {1}]

\* logs of the queue-sequence specification: two cases, queue names A, B and
\* a blank one, timestamps that parse (1) or do not (NaT after line 79)
SequenceRowValues ==
    [ticket_id : {1, 2}, activity : {<<"a">>}, timestamp : {1, NaT},
     queue_id : {<<"A">>, <<"B">>, <<" ">>}, sla_met : {1}]

\* logs of the pipeline specification: two cases, two queues, a boolean
\* sla_met in every event
PipelineRowValues ==
    [ticket_id : {1, 2}, activity : {<<"a">>}, timestamp : {1, 2},
     queue_id : {<<"A">>, <<"B">>}, sla_met : {0, 1}]

\* logs of the signature specification: two cases, two queues, two
\* activities, rows in any order
SignatureRowValues ==
    [ticket_id : {1, 2}, activity : {<<"a">>, <<"b">>}, timestamp : {1, 2},
     queue_id : {<<"A">>, <<"B">>}, sla_met : {1}]

\* min_edge_threshold: int = 1
DefaultThreshold == 1

\* format_duration inputs: the multiples of 0.5 up to MaxSeconds
SecondsValues == {[num |-> k, den |-> 2] : k \in 0..(2 * MaxSeconds)}

(***************************************************************************)
(* Specifications                                                          *)
(***************************************************************************)
InitDfg ==
    /\ event_df \in {Frame(r) : r \in SeqsUpTo(DfgRowValues, MaxEvents)}
    /\ result = NoCall

NextDfg ==
    /\ result = NoCall
    /\ \/ GenerateDfg
       \/ \E mode \in Modes : GeneratePerfDfg(mode)
       \/ \E mode \in Modes : GeneratePerfDfgGraphviz(mode)

SpecDfg == InitDfg /\ [][NextDfg]_vars

InitNet ==
    /\ event_df \in {Frame(r) : r \in SeqsUpTo(NetRowValues, MaxEvents)}
    /\ result = NoCall

NextNet ==
    /\ result = NoCall
    /\ \E selected_queues \in Selections, min_edge_threshold \in 1..MaxThreshold :
            GenerateNetworkProcessMapV2(selected_queues, TRUE, min_edge_threshold)

SpecNet == InitNet /\ [][NextNet]_vars

InitVariants ==
    /\ event_df \in {Frame(r) : r \in SeqsUpTo(VariantRowValues, MaxVariantEvents)}
    /\ result = NoCall

NextVariants ==
    /\ result = NoCall
    /\ \/ DiscoverVariants
       \/ \E selected_queues \in VariantSelections :
            ComputeVariantSummary(selected_queues)

SpecVariants == InitVariants /\ [][NextVariants]_vars

InitFormat ==
    /\ event_df = Frame(<< >>)
    /\ result = NoCall

NextFormat ==
    /\ result = NoCall
    /\ \E seconds \in SecondsValues : FormatDuration(seconds)

SpecFormat == InitFormat /\ [][NextFormat]_vars

InitSla ==
    /\ event_df \in {[columns |-> c, rows |-> r] :
                        c \in SlaColumns, r \in SeqsUpTo(SlaRowValues, MaxEvents)}
    /\ result = NoCall

NextSla ==
    /\ result = NoCall
    /\ GenerateDfg

SpecSla == InitSla /\ [][NextSla]_vars

InitSchema ==
    /\ event_df \in {[columns |-> c, rows |-> r] :
                        c \in SchemaColumns, r \in SeqsUpTo(RepeatRowValues, MaxEvents)}
    /\ result = NoCall

NextSchema ==
    /\ result = NoCall
    /\ \E selected_queues \in RepeatSelections, debug \in BOOLEAN :
            GenerateNetworkProcessMapV2(selected_queues, debug, DefaultThreshold)

SpecSchema == InitSchema /\ [][NextSchema]_vars

InitPerf ==
    /\ event_df \in {Frame(r) : r \in SeqsUpTo(PerfRowValues, MaxPerfEvents)}
    /\ result = NoCall

NextPerf ==
    /\ result = NoCall
    /\ \/ \E mode \in Modes : GeneratePerfDfg(mode)
       \/ \E mode \in Modes : GeneratePerfDfgGraphviz(mode)

SpecPerf == InitPerf /\ [][NextPerf]_vars

InitSelect ==
    /\ event_df \in {Frame(r) : r \in SeqsUpTo(SelectRowValues, MaxEvents)}
    /\ result = NoCall

NextSelect ==
    /\ result = NoCall
    /\ \E selected_queues \in Selections, min_edge_threshold \in 1..MaxThreshold :
            GenerateNetworkProcessMapV2(selected_queues, TRUE, min_edge_threshold)

SpecSelect == InitSelect /\ [][NextSelect]_vars

InitVariantIds ==
    /\ event_df \in {Frame(r) : r \in SeqsUpTo(VariantIdRowValues, MaxEvents)}
    /\ result = NoCall

NextVariantIds ==
    /\ result = NoCall
    /\ DiscoverVariants

SpecVariantIds == InitVariantIds /\ [][NextVariantIds]_vars

InitSequence ==
    /\ event_df \in {Frame(r) : r \in SeqsUpTo(SequenceRowValues, MaxEvents)}
    /\ result = NoCall

NextSequence ==
    /\ result = NoCall
    /\ \E selected_queues \in RepeatSelections, min_edge_threshold \in 1..MaxThreshold :
            GenerateNetworkProcessMapV2(selected_queues, TRUE, min_edge_threshold)

SpecSequence == InitSequence /\ [][NextSequence]_vars

InitPipeline ==
    /\ event_df \in {Frame(r) : r \in SeqsUpTo(PipelineRowValues, MaxEvents)}
    /\ result = NoCall

NextPipeline ==
    /\ result = NoCall
    /\ \/ LoadEventLog
       \/ AnalyzeQueues
       \/ GenerateDfg

SpecPipeline == InitPipeline /\ [][NextPipeline]_vars

InitSignature ==
    /\ event_df \in {Frame(r) : r \in SeqsUpTo(SignatureRowValues, MaxEvents)}
    /\ result = NoCall

NextSignature ==
    /\ result = NoCall
    /\ \/ GenerateDfg
       \/ DiscoverVariants

SpecSignature == InitSignature /\ [][NextSignature]_vars

InitRepeat ==
    /\ event_df \in {Frame(r) : r \in SeqsUpTo(RepeatRowValues, MaxEvents)}
    /\ result = NoCall

NextRepeat ==
    \/ GenerateDfg
    \/ DiscoverVariants
    \/ \E selected_queues \in RepeatSelections, debug \in BOOLEAN :
            GenerateNetworkProcessMapV2(selected_queues, debug, DefaultThreshold)

SpecRepeat == InitRepeat /\ [][NextRepeat]_vars

(***************************************************************************)
(* The specifications above make one call on a fresh log snapshot (the     *)
(* calls do not read result, so a further call would only replace it);     *)
(* SpecRepeat makes any number of calls on the same snapshot.              *)
(***************************************************************************)
Init == InitRepeat

Next == NextRepeat

Spec == SpecRepeat

(***************************************************************************)
(* Properties.  The cases of the caller's log, read from event_df itself:  *)
(* the rows of ticket t in time order, rows without a timestamp last, rows *)
(* of equal timestamp in input order.                                      *)
(***************************************************************************)
LogTickets == {event_df.rows[i].ticket_id : i \in DOMAIN event_df.rows}

CaseIndexes(t) == {i \in DOMAIN event_df.rows : event_df.rows[i].ticket_id = t}

Earlier(i, j) ==
    LET a == event_df.rows[i].timestamp
        b == event_df.rows[j].timestamp
    IN  \/ a # NaT /\ b # NaT /\ a < b
        \/ a # NaT /\ b = NaT
        \/ a = b /\ i < j

CaseInOrder(t) ==
    [k \in 1..Cardinality(CaseIndexes(t)) |->
        event_df.rows[CHOOSE i \in CaseIndexes(t) :
            Cardinality({j \in CaseIndexes(t) : Earlier(j, i)}) = k - 1]]

\* the (source, target) pairs of adjacent events of case t
CasePairs(t) ==
    LET case == CaseInOrder(t)
    IN  [k \in 1..(Len(case) - 1) |-> <<case[k].activity, case[k + 1].activity>>]

TicketsInOrder == SortNumbers(Unique(Column(event_df.rows, "ticket_id")))

DfgFunctions == {"generate_dfg", "generate_perf_dfg", "generate_perf_dfg_graphviz"}

PerfFunctions == {"generate_perf_dfg", "generate_perf_dfg_graphviz"}

\* C1: a case of n events yields exactly n-1 Steps (none when n <= 1), each
\* the pair of activities of two events adjacent in the case's time-sorted
\* sequence; the Steps of a log are those of its cases, so their number is the
\* sum over the cases of max(n-1, 0).
C1_StepsPerCase ==
    result.fn \in DfgFunctions =>
        /\ [i \in DOMAIN result.edges |->
                <<result.edges[i].source, result.edges[i].target>>]
             = Concat([k \in DOMAIN TicketsInOrder |-> CasePairs(TicketsInOrder[k])])
        /\ Len(result.edges)
             = SumOver([t \in LogTickets |->
                           IF Cardinality(CaseIndexes(t)) <= 1 THEN 0
                           ELSE Cardinality(CaseIndexes(t)) - 1],
                       LogTickets)

\* generate_dfg has run on a log with a case of two events and a case of one
C1_Witness ==
    /\ result.fn = "generate_dfg"
    /\ \E t, u \in LogTickets :
        Cardinality(CaseIndexes(t)) = 2 /\ Cardinality(CaseIndexes(u)) = 1
    /\ Len(result.edges) = 1

NetRan ==
    result.fn = "generate_network_process_map_v2" /\ result.computed # << >>

NetRun == result.computed[1]

\* C2: no edge of kind 'transition' joins a queue to itself; an edge from a
\* queue to itself has kind 'self_loop' and is an entry of single_queue_counts.
C2_NoSelfTransition ==
    NetRan =>
        /\ \A e \in DOMAIN NetRun.G :
            /\ NetRun.G[e].kind = "transition" => e[1] # e[2]
            /\ e[1] = e[2] =>
                /\ NetRun.G[e].kind = "self_loop"
                /\ e[1] \in DOMAIN NetRun.single_queue_counts
                /\ NetRun.G[e].weight = NetRun.single_queue_counts[e[1]]
        /\ \A p \in DOMAIN NetRun.transitions : p[1] # p[2]

\* the graph has a transition and a self-loop
C2_Witness ==
    /\ NetRan
    /\ \E e \in DOMAIN NetRun.G : NetRun.G[e].kind = "transition"
    /\ \E e \in DOMAIN NetRun.G : e[1] = e[2]

QueueOf(row) == Strip(row.queue_id)

\* the queues a case was in (empty queue_ids apart): one queue exactly when
\* the de-duplicated queue sequence of the case is [Q1]
CaseQueues(t) == {QueueOf(event_df.rows[i]) : i \in CaseIndexes(t)} \ {<< >>}

CountOf(counter, k) == IF k \in DOMAIN counter THEN counter[k] ELSE 0

WithoutTicket(t) ==
    [event_df EXCEPT !.rows = SelectSeq(@, LAMBDA r : r.ticket_id # t)]

\* what the recorded call counts on the log without the rows of ticket t
NetRunWithout(t) ==
    LET sequences == PerTicketSequences(NormalizeData(WithoutTicket(t)))
    IN  [global_transitions |-> GlobalTransitions(sequences),
         counted |-> SingleQueueCounts(sequences,
                                       NormalizeSelection(result.selected_queues))]

\* C3: a case that was in one queue Q1 only, Q1 selected, adds exactly 1 to
\* single_queue_counts[Q1] (before the threshold) and nothing to any transition
\* count, however many events it has; a case that was in several queues adds
\* nothing to single_queue_counts.
C3_SingleQueueCase ==
    NetRan =>
        /\ \A q \in DOMAIN NetRun.counted :
            /\ InList(q, NormalizeSelection(result.selected_queues))
            /\ NetRun.counted[q] = Cardinality({t \in LogTickets : CaseQueues(t) = {q}})
        /\ \A t \in LogTickets :
            /\ (\E q \in CaseQueues(t) :
                    /\ CaseQueues(t) = {q}
                    /\ InList(q, NormalizeSelection(result.selected_queues))) =>
                LET q == CHOOSE x \in CaseQueues(t) : TRUE
                    rest == NetRunWithout(t)
                IN  /\ CountOf(NetRun.counted, q) = CountOf(rest.counted, q) + 1
                    /\ \A r \in DOMAIN NetRun.counted \ {q} :
                        NetRun.counted[r] = CountOf(rest.counted, r)
                    /\ NetRun.global_transitions = rest.global_transitions
            /\ Cardinality(CaseQueues(t)) > 1 =>
                NetRun.counted = NetRunWithout(t).counted

\* a case of several events, all in one selected queue, has been counted once
C3_Witness ==
    /\ NetRan
    /\ \E t \in LogTickets :
        /\ Cardinality(CaseIndexes(t)) >= 2
        /\ \E q \in CaseQueues(t) :
            /\ CaseQueues(t) = {q}
            /\ CountOf(NetRun.counted, q) = 1

\* in case t, queue b comes right after queue a in the de-duplicated sequence
\* of the whole log: two events in a then b with only a (or no queue) between
DirectlyFollows(t, a, b) ==
    LET case == CaseInOrder(t)
    IN  /\ a # b
        /\ \E k, m \in DOMAIN case :
            /\ k < m
            /\ QueueOf(case[k]) = a
            /\ QueueOf(case[m]) = b
            /\ \A j \in (k + 1)..(m - 1) : QueueOf(case[j]) \in {a, << >>}

OneCaseThroughACB ==
    /\ NormalizeSelection(result.selected_queues) = <<<<"A">>, <<"B">>>>
    /\ \E t \in LogTickets :
        /\ LogTickets = {t}
        /\ [k \in DOMAIN CaseInOrder(t) |-> QueueOf(CaseInOrder(t)[k])]
             = <<<<"A">>, <<"C">>, <<"B">>>>

\* C4: a transition edge A->B is emitted only if in some case B comes right
\* after A in the de-duplicated queue sequence of the whole log; for the
\* selection [A,B] and one case through A, C, B the global pass records A->C
\* and C->B and no edge joins A and B.
C4_NoFabricatedTransition ==
    NetRan =>
        /\ \A e \in DOMAIN NetRun.G :
            NetRun.G[e].kind = "transition" =>
                \E t \in LogTickets : DirectlyFollows(t, e[1], e[2])
        /\ OneCaseThroughACB =>
            /\ NetRun.global_transitions
                 = [p \in {<<<<"A">>, <<"C">>>>, <<<<"C">>, <<"B">>>>} |-> 1]
            /\ DOMAIN NetRun.G \cap {<<<<"A">>, <<"B">>>>, <<<<"B">>, <<"A">>>>} = {}

C4_Witness == NetRan /\ OneCaseThroughACB

\* the counts of the recorded call's log and selection, which lines 86 and
\* 96-99 compute without the threshold
LogCounts ==
    LET sequences == PerTicketSequences(NormalizeData(event_df))
    IN  [global_transitions |-> GlobalTransitions(sequences),
         counted |-> SingleQueueCounts(sequences,
                                       NormalizeSelection(result.selected_queues))]

\* the graph of the recorded call's log and selection at threshold t1
GraphOf(counts, t1) ==
    BuildGraph(FilterTransitions(counts.global_transitions,
                                 NormalizeSelection(result.selected_queues), t1),
               ThresholdCounts(counts.counted, t1))

GraphAt(t1) == GraphOf(LogCounts, t1)

\* C5: for thresholds t1 <= t2 every edge produced at t2 is produced at t1,
\* with the same weight and kind.
C5_MonotonicPruning ==
    NetRan =>
        LET counts == LogCounts
        IN  \A t1 \in 1..result.min_edge_threshold :
                LET low == GraphOf(counts, t1)
                IN  /\ DOMAIN NetRun.G \subseteq DOMAIN low
                    /\ \A e \in DOMAIN NetRun.G : NetRun.G[e] = low[e]

\* at threshold 2 an edge is kept and another, present at threshold 1, is gone
C5_Witness ==
    /\ NetRan
    /\ result.min_edge_threshold = 2
    /\ DOMAIN NetRun.G # {}
    /\ DOMAIN NetRun.G # DOMAIN GraphAt(1)

(***************************************************************************)
(* Variants                                                                *)
(***************************************************************************)
\* the activities of ticket t in queue q, in time order
ActivitiesIn(q, t) ==
    Column(SelectSeq(CaseInOrder(t), LAMBDA r : r.queue_id = q), "activity")

SameMultiset(l1, l2) ==
    \A a \in {l1[i] : i \in DOMAIN l1} \cup {l2[i] : i \in DOMAIN l2} :
        Occurrences(l1, a) = Occurrences(l2, a)

LogQueues == {event_df.rows[i].queue_id : i \in DOMAIN event_df.rows}

\* the rows of the variant table that case (q, t) falls in: those of queue q
\* with the signature computed for the case
VariantRowsOf(q, t) ==
    {i \in DOMAIN result.out.value :
        /\ result.out.value[i].queue_id = q
        /\ \E v \in DOMAIN result.variants :
            /\ result.variants[v].queue_id = q
            /\ result.variants[v].ticket_id = t
            /\ result.variants[v].sequence = result.out.value[i].sequence}

KeptIndexes(t) ==
    {i \in CaseIndexes(t) :
        \/ result.selected_queues = << >>
        \/ InList(event_df.rows[i].queue_id, result.selected_queues)}

\* the activity signature of case t over the rows the call keeps
CaseSignature(t) ==
    Join(Column(SelectSeq(CaseInOrder(t), LAMBDA r :
                    \/ result.selected_queues = << >>
                    \/ InList(r.queue_id, result.selected_queues)),
                "activity"),
         Separator)

\* C7: the count of a (queue_id, variant) row is the number of cases (distinct
\* ticket_ids) in that queue whose signature is that variant, whatever the
\* number of their events.
C7_CountIsCases ==
    (result.fn = "compute_variant_summary" /\ result.out.raised = "none") =>
        \A i \in DOMAIN result.out.value :
            result.out.value[i].count
              = Cardinality({t \in LogTickets :
                    /\ \E k \in KeptIndexes(t) :
                        event_df.rows[k].queue_id = result.out.value[i].queue_id
                    /\ CaseSignature(t) = result.out.value[i].variant})

(***************************************************************************)
(* format_duration                                                         *)
(***************************************************************************)
HrText == <<" ", "h", "r", " ">>

MinText == <<" ", "m", "i", "n", " ">>

SecText == <<" ", "s", "e", "c">>

DurationText(H, M, S) ==
    IF H > 0 THEN Decimal(H) \o HrText \o Decimal(M) \o MinText \o Decimal(S) \o SecText
    ELSE IF M > 0 THEN Decimal(M) \o MinText \o Decimal(S) \o SecText
    ELSE Decimal(S) \o SecText

\* the integer part of seconds: t <= seconds < t + 1
TruncatedIs(seconds, t) == t * seconds.den <= seconds.num /\ seconds.num < (t + 1) * seconds.den

\* C8: for seconds >= 0 with integer part t the result is 'H hr M min S sec'
\* if H > 0, 'M min S sec' if H = 0 < M, 'S sec' otherwise, where
\* H*3600 + M*60 + S = t, 0 <= M < 60, 0 <= S < 60; 0 gives '0 sec', 125 gives
\* '2 min 5 sec' and 3661 gives '1 hr 1 min 1 sec'.
C8_FormatDuration ==
    result.fn = "format_duration" =>
        /\ \E t \in 0..(MaxSeconds + 1) :
            /\ TruncatedIs(result.seconds, t)
            /\ \E H \in 0..(t \div 3600), M \in 0..59 :
                LET S == t - H * 3600 - M * 60
                IN  /\ 0 <= S /\ S < 60
                    /\ result.out = Returned(DurationText(H, M, S))
        /\ TruncatedIs(result.seconds, 0) =>
            result.out.value = <<"0", " ", "s", "e", "c">>
        /\ TruncatedIs(result.seconds, 125) =>
            result.out.value = <<"2", " ", "m", "i", "n", " ", "5", " ", "s", "e", "c">>
        /\ TruncatedIs(result.seconds, 3661) =>
            result.out.value = <<"1", " ", "h", "r", " ", "1", " ", "m", "i", "n", " ",
                                 "1", " ", "s", "e", "c">>

\* format_duration(3661.5) has returned '1 hr 1 min 1 sec'
C8_Witness ==
    /\ result.fn = "format_duration"
    /\ result.seconds = [num |-> 7323, den |-> 2]
    /\ result.out.value = <<"1", " ", "h", "r", " ", "1", " ", "m", "i", "n", " ",
                            "1", " ", "s", "e", "c">>

(***************************************************************************)
(* Repeated calls                                                          *)
(***************************************************************************)
SameCall(r1, r2) ==
    /\ r1.fn = r2.fn
    /\ r1.fn = "generate_network_process_map_v2" =>
        /\ r1.selected_queues = r2.selected_queues
        /\ r1.debug = r2.debug
        /\ r1.min_edge_threshold = r2.min_edge_threshold

StepsWithKey(src, dst) ==
    Cardinality({i \in DOMAIN result.edges :
        result.edges[i].source = src /\ result.edges[i].target = dst})

CountsOf(summary) ==
    {<<summary[i].source, summary[i].target, summary[i].count>> : i \in DOMAIN summary}

\* C10: in every metric mode the aggregated output of a call that returns has
\* exactly one Transition per (source, target) with at least one Step, its
\* count is the number of Steps with that key, hence >= 1, and the counts are
\* those of every other mode.
C10_CountPerKey ==
    (result.fn \in PerfFunctions /\ result.out.raised = "none") =>
        /\ \A e \in DOMAIN result.edges :
            Cardinality({i \in DOMAIN result.summary :
                /\ result.summary[i].source = result.edges[e].source
                /\ result.summary[i].target = result.edges[e].target}) = 1
        /\ \A i \in DOMAIN result.summary :
            /\ result.summary[i].count
                 = StepsWithKey(result.summary[i].source, result.summary[i].target)
            /\ result.summary[i].count >= 1
        /\ \A mode \in Modes :
            CountsOf(PerfSummary(result.edges, mode)) = CountsOf(result.summary)

(***************************************************************************)
(* Compliance flags of generate_dfg                                        *)
(***************************************************************************)
\* the events that are the target of a Step, in the order of the Steps
TargetEvents ==
    Concat([k \in DOMAIN TicketsInOrder |-> Tail(CaseInOrder(TicketsInOrder[k]))])

\* the indexes of the Steps aggregated in row r of the returned table
StepsOfRow(r) ==
    {i \in DOMAIN result.edges :
        /\ result.edges[i].queue_id = r.queue_id
        /\ result.edges[i].source = r.source
        /\ result.edges[i].target = r.target}

C15_MissingSlaCompliant ==
    result.fn = "generate_dfg" =>
        /\ Len(result.edges) = Len(TargetEvents)
        /\ \A i \in DOMAIN result.edges :
            ("sla_met" \notin event_df.columns \/ TargetEvents[i].sla_met = NaN) =>
                result.edges[i].sla_met = 1
        /\ result.edges # << >> => result.out.raised = "none"

(***************************************************************************)
(* Schema check of generate_network_process_map_v2                         *)
(***************************************************************************)
MissingColumns == {"ticket_id", "timestamp", "queue_id"} \ event_df.columns

\* C12: when any of ticket_id, timestamp, queue_id is absent from the log,
\* generate_network_process_map_v2 raises the schema error (ValueError) and
\* has done nothing else: no data normalized, no transition computed, no
\* output directory created, no image written, nothing returned.
C12_SchemaError ==
    (result.fn = "generate_network_process_map_v2" /\ MissingColumns # {}) =>
        /\ result.out.raised = "ValueError"
        /\ result.out.value = << >>
        /\ result.computed = << >>
        /\ ~result.made_dirs
        /\ ~result.image_written

\* the call has raised on a log with rows that lacks timestamp and queue_id
C12_Witness ==
    /\ result.fn = "generate_network_process_map_v2"
    /\ MissingColumns = {"timestamp", "queue_id"}
    /\ event_df.rows # << >>
    /\ result.out.raised = "ValueError"

(***************************************************************************)
(* Logs that yield no Step, no variant, no edge                            *)
(***************************************************************************)
\* C13: when the log yields zero Steps, zero variants or zero edges (no rows,
\* single-event cases only, no case in the selected queues), generate_dfg,
\* discover_variants and generate_network_process_map_v2 return a well-formed
\* empty result and do not raise.
C13_EmptyResult ==
    /\ (result.fn = "generate_dfg" /\ result.edges = << >>) =>
            (result.out.raised = "none" /\ result.out.value = << >>)
    /\ (result.fn = "discover_variants" /\ result.variants = << >>) =>
            (result.out.raised = "none" /\ result.out.value = << >>)
    /\ (NetRan /\ DOMAIN NetRun.G = {}) =>
            (result.out.raised = "none" /\ result.image_written)

(***************************************************************************)
(* Duration statistic of the performance graphs                            *)
(***************************************************************************)
\* the Steps of a (source, target) key whose duration is defined
TimedSteps(src, dst) ==
    {i \in DOMAIN result.edges :
        /\ result.edges[i].source = src
        /\ result.edges[i].target = dst
        /\ result.edges[i].duration_sec # NaN}

DurationSum(I) == SumOver([i \in I |-> result.edges[i].duration_sec], I)

\* the k-th smallest duration among the Steps I
KthDuration(I, k) ==
    CHOOSE v \in {result.edges[i].duration_sec : i \in I} :
        /\ Cardinality({i \in I : result.edges[i].duration_sec < v}) < k
        /\ Cardinality({i \in I : result.edges[i].duration_sec <= v}) >= k

\* the fraction x is the number num/den
IsNumber(x, num, den) == x.den > 0 /\ x.num * den = num * x.den

\* C14: the duration of a Transition is the median of the durations of its
\* Steps in mode 'median', their sum in mode 'total', and their mean in mode
\* 'avg' and in any other mode, which does not raise where 'avg' does not
\* (durations that are undefined are left out, as pandas leaves them out).
C14_DurationStatistic ==
    result.fn \in PerfFunctions =>
        /\ \A k \in DOMAIN result.summary :
            LET row == result.summary[k]
                I == TimedSteps(row.source, row.target)
                n == Cardinality(I)
            IN  IF result.mode = "total"
                THEN IsNumber(row.duration, DurationSum(I), 1)
                ELSE IF n = 0
                THEN row.duration.den = 0
                ELSE IF result.mode = "median"
                THEN IF n % 2 = 1
                     THEN IsNumber(row.duration, KthDuration(I, (n + 1) \div 2), 1)
                     ELSE IsNumber(row.duration,
                                   KthDuration(I, n \div 2)
                                       + KthDuration(I, n \div 2 + 1), 2)
                ELSE IsNumber(row.duration, DurationSum(I), n)
        /\ result.mode \notin {"avg", "median", "total"} =>
            \/ result.out.raised = "none"
            \/ \E k \in DOMAIN result.summary :
                    TimedSteps(result.summary[k].source, result.summary[k].target) = {}

\* a median-mode Transition of three Steps whose median is not their mean
C14_Witness ==
    /\ result.fn = "generate_perf_dfg"
    /\ result.mode = "median"
    /\ result.out.raised = "none"
    /\ \E k \in DOMAIN result.summary :
        LET row == result.summary[k]
            I == TimedSteps(row.source, row.target)
        IN  /\ Cardinality(I) = 3
            /\ row.duration.num * 3 # DurationSum(I) * row.duration.den

(***************************************************************************)
(* Order of the input rows                                                 *)
(***************************************************************************)
\* the log with rows i and i+1 exchanged
Swapped(i) ==
    [event_df EXCEPT !.rows =
        [k \in DOMAIN @ |-> IF k = i THEN @[i + 1] ELSE IF k = i + 1 THEN @[i] ELSE @[k]]]

\* rows i and i+1 are events of one case with equal timestamps
TieAt(i) ==
    /\ event_df.rows[i].ticket_id = event_df.rows[i + 1].ticket_id
    /\ event_df.rows[i].timestamp = event_df.rows[i + 1].timestamp

Exchanges == {i \in 1..(Len(event_df.rows) - 1) : ~TieAt(i)}

\* the queues of case t in time order, ties in input order, empty names
\* left out and runs of one queue reduced to their first element
QueuesInOrder(t) ==
    LET case == CaseInOrder(t)
        named == SelectSeq([k \in DOMAIN case |-> QueueOf(case[k])],
                           LAMBDA q : q # << >>)
        firsts == {k \in DOMAIN named : k = 1 \/ named[k] # named[k - 1]}
    IN  [j \in 1..Cardinality(firsts) |->
            named[CHOOSE k \in firsts : Cardinality({m \in firsts : m < k}) = j - 1]]

\* C16: the sequence of a case does not depend on the order of the input
\* rows beyond ties: the events of a case are processed in non-decreasing
\* timestamp order, events of equal timestamp in input order, and exchanging
\* two neighbouring rows that are not such a tie changes nothing (every
\* permutation that keeps the ties is a chain of such exchanges).
C16_InputOrder ==
    /\ result.fn = "generate_dfg" =>
        /\ \A i \in DOMAIN result.edges : result.edges[i].duration_sec >= 0
        /\ [i \in DOMAIN result.edges |-> result.edges[i].queue_id]
             = Concat([k \in DOMAIN TicketsInOrder |->
                    LET case == CaseInOrder(TicketsInOrder[k])
                    IN  [j \in 1..(Len(case) - 1) |-> case[1].queue_id]])
        /\ \A i \in Exchanges : DfgEdges(Swapped(i)) = result.edges
    /\ result.fn = "discover_variants" =>
        \A i \in Exchanges : VariantRows(Swapped(i)) = result.variants
    /\ NetRan =>
        /\ DOMAIN NetRun.per_ticket_sequences = LogTickets
        /\ \A t \in LogTickets : NetRun.per_ticket_sequences[t] = QueuesInOrder(t)
        /\ \A i \in Exchanges :
            PerTicketSequences(NormalizeData(Swapped(i))) = NetRun.per_ticket_sequences

\* generate_dfg has run on a case given latest event first, with a tie
C16_Witness ==
    /\ result.fn = "generate_dfg"
    /\ Len(event_df.rows) = 3
    /\ LogTickets = {1}
    /\ event_df.rows[1].timestamp = 2
    /\ event_df.rows[2].timestamp = 1 /\ event_df.rows[3].timestamp = 1
    /\ event_df.rows[2].queue_id # event_df.rows[3].queue_id
    /\ Len(result.edges) = 2
    /\ result.edges[1].queue_id = event_df.rows[2].queue_id
    /\ result.edges[1].duration_sec = 0 /\ result.edges[2].duration_sec = 1

(***************************************************************************)
(* Independence of the selection                                           *)
(***************************************************************************)
\* the recorded call made again with the selection other_queues
RunWith(other_queues) ==
    NetworkProcessMapV2(event_df, other_queues, result.debug, result.min_edge_threshold)

InBoth(q, other_queues) ==
    /\ InList(q, NormalizeSelection(result.selected_queues))
    /\ InList(q, NormalizeSelection(other_queues))

\* C17: the per-ticket queue sequences and the global transition counts do
\* not depend on selected_queues: for two selections that both contain A and
\* B the pair A->B is emitted under both or under neither, with the same
\* count, and the per-ticket sequences of the diagnostics are the same.
C17_SelectionIndependent ==
    NetRan =>
        \A other_queues \in Selections \ {result.selected_queues} :
            LET other == RunWith(other_queues)
            IN  /\ other.per_ticket_sequences = NetRun.per_ticket_sequences
                /\ other.global_transitions = NetRun.global_transitions
                /\ \A p \in DOMAIN NetRun.G \cup DOMAIN other.G :
                    (p[1] # p[2] /\ InBoth(p[1], other_queues)
                                 /\ InBoth(p[2], other_queues)) =>
                        /\ p \in DOMAIN NetRun.G \cap DOMAIN other.G
                        /\ NetRun.G[p] = other.G[p]
                        /\ NetRun.transitions[p] = other.transitions[p]
                /\ (result.out.raised = "none" /\ other.out.raised = "none") =>
                    result.out.value[1].per_ticket_filtered_sequences_sample
                        = other.out.value[1].per_ticket_filtered_sequences_sample

\* A->B is emitted for the selection [A,B] on a log with a case in queue C
C17_Witness ==
    /\ NetRan
    /\ result.selected_queues = <<<<"A">>, <<"B">>>>
    /\ \E t \in LogTickets : CaseQueues(t) = {<<"C">>}
    /\ <<<<"A">>, <<"B">>>> \in DOMAIN NetRun.G
    /\ result.out.raised = "none"

(***************************************************************************)
(* Nodes and edges of the queue map                                        *)
(***************************************************************************)
\* C18: the nodes of the graph are exactly the endpoints of the emitted
\* transitions and self-loops; when no edge qualifies the call does not fail
\* and draws the selected queues as a graph without edges; every edge has a
\* kind, transition or self_loop, and a weight.
C18_GraphModel ==
    NetRan =>
        /\ GraphNodes(NetRun.G)
             = {p[1] : p \in DOMAIN NetRun.transitions}
                  \cup {p[2] : p \in DOMAIN NetRun.transitions}
                  \cup DOMAIN NetRun.single_queue_counts
        /\ \A e \in DOMAIN NetRun.G :
            /\ NetRun.G[e].kind \in {"transition", "self_loop"}
            /\ NetRun.G[e].weight \in Nat \ {0}
        /\ DOMAIN NetRun.G = {} =>
            /\ result.out.raised = "none"
            /\ result.image_written

(***************************************************************************)
(* Threshold of the queue map                                              *)
(***************************************************************************)
\* the places where queue b comes right after queue a in the de-duplicated
\* queue sequence of case t
Moves(t, a, b) ==
    {k \in 1..(Len(QueuesInOrder(t)) - 1) :
        QueuesInOrder(t)[k] = a /\ QueuesInOrder(t)[k + 1] = b}

\* the number of times b comes right after a, over all cases of the log
PairCount(a, b) ==
    SumOver([t \in LogTickets |-> Cardinality(Moves(t, a, b))], LogTickets)

\* the number of cases whose whole de-duplicated sequence is the queue q
StuckCount(q) == Cardinality({t \in LogTickets : QueuesInOrder(t) = <<q>>})

SelectedSet ==
    {NormalizeSelection(result.selected_queues)[i] : i \in DOMAIN result.selected_queues}

\* C19: one threshold for both kinds of edge, and it alters no count: every
\* transition and every self-loop of the output, and of the diagnostics, has
\* a weight >= min_edge_threshold that is the unthresholded count (of the
\* pair over the whole log; of the cases that stayed in that one selected
\* queue), and every selected pair or queue whose count reaches the threshold
\* is there.
C19_Threshold ==
    NetRan =>
        /\ \A a, b \in SelectedSet :
            IF a = b
            THEN /\ <<a, a>> \in DOMAIN NetRun.G
                        <=> StuckCount(a) >= result.min_edge_threshold
                 /\ <<a, a>> \in DOMAIN NetRun.G =>
                        /\ NetRun.G[<<a, a>>].kind = "self_loop"
                        /\ NetRun.G[<<a, a>>].weight = StuckCount(a)
            ELSE /\ <<a, b>> \in DOMAIN NetRun.G
                        <=> PairCount(a, b) >= result.min_edge_threshold
                 /\ <<a, b>> \in DOMAIN NetRun.G =>
                        /\ NetRun.G[<<a, b>>].kind = "transition"
                        /\ NetRun.G[<<a, b>>].weight = PairCount(a, b)
        /\ \A e \in DOMAIN NetRun.G : e[1] \in SelectedSet /\ e[2] \in SelectedSet
        /\ result.out.raised = "none" =>
            LET diagnostics == result.out.value[1]
            IN  /\ diagnostics.filtered_transition_counts
                     = [p \in {e \in DOMAIN NetRun.G : e[1] # e[2]} |-> NetRun.G[p].weight]
                /\ diagnostics.single_queue_ticket_counts
                     = [q \in {e[1] : e \in {x \in DOMAIN NetRun.G : x[1] = x[2]}} |->
                            NetRun.G[<<q, q>>].weight]

\* at threshold 2 a self-loop of weight 2 is drawn and the self-loop of a
\* selected queue in which one case stayed is not
C19_Witness ==
    /\ NetRan
    /\ result.min_edge_threshold = 2
    /\ \E q \in SelectedSet :
        /\ <<q, q>> \in DOMAIN NetRun.G
        /\ NetRun.G[<<q, q>>].weight = 2
    /\ \E q \in SelectedSet : StuckCount(q) = 1 /\ <<q, q>> \notin DOMAIN NetRun.G
    /\ result.out.raised = "none"

(***************************************************************************)
(* variant_id                                                              *)
(***************************************************************************)
\* the rows of queue q in the table discover_variants returned
RowsOfQueue(q) ==
    {i \in DOMAIN result.out.value : result.out.value[i].queue_id = q}

\* the distinct activity lists of the cases of queue q
ListsOfQueue(q) == {ActivitiesIn(q, t) : t \in LogTickets} \ {<< >>}

\* C20: the variant_ids of the rows of a queue are exactly 1..k, k the number
\* of distinct signatures of the queue, without gap or duplicate, and the id
\* of a row is its rank among the signatures of its queue in the order of the
\* groups (the order of the signature strings), whatever the ticket_counts.
C20_DenseVariantIds ==
    (result.fn = "discover_variants" /\ result.out.raised = "none") =>
        \A q \in LogQueues :
            LET rows == result.out.value
                k == Cardinality(ListsOfQueue(q))
            IN  /\ Cardinality(RowsOfQueue(q)) = k
                /\ {rows[i].variant_id : i \in RowsOfQueue(q)} = 1..k
                /\ \A i \in RowsOfQueue(q) :
                    rows[i].variant_id
                      = 1 + Cardinality({j \in RowsOfQueue(q) :
                                StrLess(rows[j].sequence, rows[i].sequence)})

\* in one queue variant 1 has one ticket and variant 2 has two
C20_Witness ==
    /\ result.fn = "discover_variants"
    /\ result.out.raised = "none"
    /\ \E i, j \in DOMAIN result.out.value :
        /\ result.out.value[i].queue_id = result.out.value[j].queue_id
        /\ result.out.value[i].variant_id = 1 /\ result.out.value[i].ticket_count = 1
        /\ result.out.value[j].variant_id = 2 /\ result.out.value[j].ticket_count = 2

(***************************************************************************)
(* C21: the queue sequence of a case                                       *)
(***************************************************************************)
\* the non-empty queue names of case t in time order, repeats kept
NamedQueues(t) ==
    LET case == CaseInOrder(t)
    IN  SelectSeq([k \in DOMAIN case |-> QueueOf(case[k])], LAMBDA q : q # << >>)

\* the place in the collapsed list of the k-th entry of named: one more than
\* the number of changes of queue up to k
Position(named, k) ==
    1 + Cardinality({j \in 2..k : named[j] # named[j - 1]})

\* C21: for every case the QueueSequence has no empty entry and no two
\* adjacent equal entries, and it is the case's time-ordered list of queue
\* names with the empty ones dropped and each run of one queue collapsed to
\* one entry (every named event maps, in order, onto the entry of its run);
\* a queue revisited after another one appears again: A, B, A gives [A, B, A].
C21_QueueSequence ==
    NetRan =>
        /\ DOMAIN NetRun.per_ticket_sequences = LogTickets
        /\ \A t \in LogTickets :
            LET seq == NetRun.per_ticket_sequences[t]
                named == NamedQueues(t)
            IN  /\ \A k \in DOMAIN seq : seq[k] # << >>
                /\ \A k \in 1..(Len(seq) - 1) : seq[k] # seq[k + 1]
                /\ Len(seq) = IF named = << >> THEN 0
                              ELSE Position(named, Len(named))
                /\ \A k \in DOMAIN named : seq[Position(named, k)] = named[k]
                /\ named = << <<"A">>, <<"B">>, <<"A">> >>
                    => seq = << <<"A">>, <<"B">>, <<"A">> >>

\* the call has run on a log with a case that went through A, B and A again
C21_Witness ==
    /\ NetRan
    /\ \E t \in LogTickets :
        /\ NamedQueues(t) = << <<"A">>, <<"B">>, <<"A">> >>
        /\ NetRun.per_ticket_sequences[t] = << <<"A">>, <<"B">>, <<"A">> >>

(***************************************************************************)
(* C22: events whose timestamp does not parse                              *)
(***************************************************************************)
\* the events of case t whose timestamp parses, in time order
ParsedEvents(t) ==
    SelectSeq(CaseInOrder(t), LAMBDA row : ToDatetime(row.timestamp) # NaT)

\* the queue sequences of the log read without the events whose timestamp
\* does not parse
ParsedSequences ==
    [t \in LogTickets |->
        LET case == ParsedEvents(t)
        IN  DedupQueues([k \in DOMAIN case |-> QueueOf(case[k])], << >>)]

\* C22: in generate_network_process_map_v2 an event whose timestamp fails to
\* parse is rejected as a row: the aggregation is carried out all the same,
\* and every QueueSequence, transition count and self-loop count is the one
\* of the log without those events (a case with no other event has an empty
\* sequence), the case's other events being aggregated as usual.
C22_RejectedRow ==
    result.fn = "generate_network_process_map_v2" =>
        /\ NetRan
        /\ \A t \in LogTickets :
            /\ t \in DOMAIN NetRun.per_ticket_sequences
                => NetRun.per_ticket_sequences[t] = ParsedSequences[t]
            /\ t \notin DOMAIN NetRun.per_ticket_sequences
                => ParsedSequences[t] = << >>
        /\ NetRun.global_transitions = GlobalTransitions(ParsedSequences)
        /\ NetRun.counted =
            SingleQueueCounts(ParsedSequences, NormalizeSelection(result.selected_queues))

(***************************************************************************)
(* C23: durations belong to pairs of adjacent events of one case           *)
(***************************************************************************)
\* the durations between adjacent events of case t, in time order
CaseDurations(t) ==
    LET case == CaseInOrder(t)
    IN  [k \in 1..(Len(case) - 1) |-> Duration(case[k].timestamp, case[k + 1].timestamp)]

\* the Steps of generate_dfg carry the durations of the adjacent pairs of
\* each case and nothing else: no Step for the last event of a case, none
\* across two cases
DfgDurationsOfPairs ==
    result.fn = "generate_dfg" =>
        Column(result.edges, "duration_sec") =
            Concat([n \in DOMAIN TicketsInOrder |-> CaseDurations(TicketsInOrder[n])])

\* the duration_sec column of load_event_log: the k-th event of a case has
\* the duration to the (k+1)-th event of the same case, the last event of a
\* case has no value (NaN)
LoadDurationsOfPairs ==
    result.fn = "load_event_log" =>
        /\ result.out.raised = "none"
        /\ \A i \in DOMAIN result.out.value.rows :
            LET row == result.out.value.rows[i]
                durations == CaseDurations(row.ticket_id)
            IN  row.duration_sec =
                    IF row.event_order \in DOMAIN durations
                    THEN durations[row.event_order]
                    ELSE NaN

\* C23: a duration is defined only for a pair of adjacent events of one
\* case: neither the Steps of generate_dfg nor the duration_sec column of
\* load_event_log gives a duration value to the last event of a case, and no
\* duration spans two cases.
C23_DurationOfPairs == DfgDurationsOfPairs /\ LoadDurationsOfPairs

(***************************************************************************)
(* C24: one signature per case and queue                                   *)
(***************************************************************************)
\* the queues case t has events in
QueuesOfCase(t) == {event_df.rows[i].queue_id : i \in CaseIndexes(t)}

\* the signatures discover_variants has built for case t
SignaturesOf(t) ==
    {v \in DOMAIN result.variants : result.variants[v].ticket_id = t}

\* C24: discover_variants never merges the events of a case that lie in
\* different queues: a case with events in k queues has k signatures, one
\* per queue, each the join of the case's activities in that queue in time
\* order; so the ticket_counts of the returned rows add up to the number of
\* distinct (queue_id, ticket_id) pairs of the log.
C24_SignaturePerQueue ==
    result.fn = "discover_variants" =>
        /\ \A t \in LogTickets :
            /\ Cardinality(SignaturesOf(t)) = Cardinality(QueuesOfCase(t))
            /\ \A q \in QueuesOfCase(t) :
                \E v \in SignaturesOf(t) :
                    /\ result.variants[v].queue_id = q
                    /\ result.variants[v].sequence = Join(ActivitiesIn(q, t), Separator)
        /\ result.out.raised = "none" =>
            SumOver([i \in DOMAIN result.out.value |-> result.out.value[i].ticket_count],
                    DOMAIN result.out.value)
              = Cardinality({<<event_df.rows[i].queue_id, event_df.rows[i].ticket_id>> :
                                i \in DOMAIN event_df.rows})

\* discover_variants has returned for a log of one case with an event in
\* queue A and two in queue B, the later of the two given first
C24_Witness ==
    /\ result.fn = "discover_variants"
    /\ result.out.raised = "none"
    /\ LogTickets = {1}
    /\ QueuesOfCase(1) = {<<"A">>, <<"B">>}
    /\ \E i, j \in CaseIndexes(1) :
        /\ i < j
        /\ event_df.rows[i].queue_id = <<"B">> /\ event_df.rows[j].queue_id = <<"B">>
        /\ event_df.rows[i].timestamp = 2 /\ event_df.rows[j].timestamp = 1
        /\ event_df.rows[i].activity = <<"b">> /\ event_df.rows[j].activity = <<"a">>
    /\ \E v \in SignaturesOf(1) :
        result.variants[v].sequence = <<"a">> \o Separator \o <<"b">>
    /\ SumOver([i \in DOMAIN result.out.value |-> result.out.value[i].ticket_count],
               DOMAIN result.out.value) = 2

(***************************************************************************)
(* C25: the compliance percentage of a queue                               *)
(***************************************************************************)
\* C25: for every event table with a boolean sla_met per event, the
\* sla_compliance that analyze_queues reports for each queue is a percentage
\* between 0 and 100 inclusive, also when tickets have more than one event.
C25_CompliancePercentage ==
    result.fn = "analyze_queues" =>
        /\ result.out.raised = "none"
        /\ \A k \in DOMAIN result.out.value :
            LET pct == result.out.value[k].sla_compliance
            IN  /\ pct.den > 0
                /\ 0 <= pct.num
                /\ pct.num <= 100 * pct.den

(***************************************************************************)
(* C26: the queue of a Step                                                *)
(***************************************************************************)
\* for each Step of the log, case by case, the queue of the earliest event
\* of its case
StepQueues ==
    Concat([n \in DOMAIN TicketsInOrder |->
        LET case == CaseInOrder(TicketsInOrder[n])
        IN  [i \in 1..(Len(case) - 1) |-> case[1].queue_id]])

\* the sum of count over the returned rows of queue q
CountOfQueue(q) ==
    LET rows == {k \in DOMAIN result.out.value : result.out.value[k].queue_id = q}
    IN  SumOver([k \in rows |-> result.out.value[k].count], rows)

\* C26: in generate_dfg every Step of a case carries the queue_id of the
\* case's earliest event, wherever the later events are; so the counts of
\* the rows of a queue Q add up to the number of Steps of the cases whose
\* earliest event is in Q, and the counts of all rows to the number of Steps.
C26_QueueOfCase ==
    result.fn = "generate_dfg" =>
        /\ Len(result.edges) = Len(StepQueues)
        /\ \A i \in DOMAIN result.edges : result.edges[i].queue_id = StepQueues[i]
        /\ result.out.raised = "none" =>
            /\ \A q \in LogQueues :
                CountOfQueue(q) = Cardinality({i \in DOMAIN StepQueues : StepQueues[i] = q})
            /\ SumOver([k \in DOMAIN result.out.value |-> result.out.value[k].count],
                       DOMAIN result.out.value) = Len(StepQueues)

\* generate_dfg has returned for a case that starts in queue A and has its
\* two later events in queue B: both Steps are counted under A, none under B
C26_Witness ==
    /\ result.fn = "generate_dfg"
    /\ result.out.raised = "none"
    /\ LogTickets = {1}
    /\ Column(CaseInOrder(1), "queue_id") = << <<"A">>, <<"B">>, <<"B">> >>
    /\ Column(CaseInOrder(1), "activity") = << <<"a">>, <<"b">>, <<"a">> >>
    /\ CountOfQueue(<<"A">>) = 2
    /\ CountOfQueue(<<"B">>) = 0

====
